---- MODULE Spec2Model ----
(***************************************************************************)
(* FerrOS boot handoff and memory subsystem.                               *)
(*                                                                         *)
(*   src/src/efi.rs               MemoryMapHolder, call_get_memory_map,    *)
(*                                framebuffer, EfiStatus                   *)
(*   src/src/main.rs              efi_main, exit_from_efi_boot_services    *)
(*   src/src/memory/allocator.rs  BitmapFrameAllocator                     *)
(*   src/src/memory/mapper.rs     init_paging                              *)
(*   src/src/memory/mod.rs        init_heap                                *)
(*                                                                         *)
(* Representation.  TLC integers are 32 bits wide, so a physical address   *)
(* is held in KiB (address / 1024): the 4096-byte frame is PAGE_KIB = 4    *)
(* and the 0x1_0000_0000 limit is FOUR_GIB_KIB.  Every address the model   *)
(* handles is far below 2^64, so the u64 arithmetic of the source never    *)
(* wraps on the inputs drawn here.  The memory map buffer is a sequence of *)
(* 8-byte words (the zero-initialised tail that was never written is left  *)
(* implicit); byte offsets into it are multiples of 8.  The bitmap is held *)
(* as its length in bits and the set of indices whose bit is 0.            *)
(***************************************************************************)
EXTENDS Integers, Sequences, FiniteSets, TLC

VARIABLES
    pc,         \* position of the running code
    fw,         \* the firmware: [key, rejects, rejects0, fails, exited]
    calls,      \* firmware operations invoked so far, in order
    steps,      \* boot steps completed so far, in order
    holder,     \* the MemoryMapHolder
    snap,       \* the regions behind the bytes now in holder (what was written),
                \* the holder as the last capture wrote it and as it was at
                \* the accepted exit
    fa,         \* the BitmapFrameAllocator, or NoAllocator
    returned,   \* the results of the allocate_frame calls so far, in order
    kern        \* what the kernel has set up: page tables and CR3, the heap,
                \* bitmap storage written, protocol pointer dereferenced

vars == <<pc, fw, calls, steps, holder, snap, fa, returned, kern>>

----------------------------------------------------------------------------
(* Program constants *)

\* allocator.rs:41,47,71,107 : 4096 bytes per frame, in KiB
PAGE_KIB == 4
\* allocator.rs:43 : 0x1_0000_0000 bytes, in KiB
FOUR_GIB_KIB == 4194304
\* allocator.rs:8
BITMAP_STORAGE_SIZE_BYTES == 102400
\* allocator.rs:66
EFI_CONVENTIONAL == 7
\* efi.rs:116
MEMORY_MAP_BUFFER_SIZE == 4096 * 8
\* memory/mod.rs:11-12 : HEAP_START = 0x0080_0000, HEAP_SIZE = 100 * 1024,
\* in KiB
HEAP_START_KIB == 8192
HEAP_SIZE_KIB == 100
\* efi.rs:104-113 : size_of::<EfiMemoryDescriptor>() = 4+4+8+8+8+8
DESC_SIZE == 40
\* one buffer cell is one u64
WORD == 8

None == -1
NoAllocator == [kind |-> "none"]

----------------------------------------------------------------------------
(* MemoryMapHolder (efi.rs) *)

\* efi.rs:129-137 MemoryMapHolder::new : an all-zero buffer and zero fields
HolderNew ==
    [memory_map_buffer |-> <<>>, memory_map_size |-> 0, map_key |-> 0,
     descriptor_size |-> 0, descriptor_version |-> 0]

\* the u64 at byte offset off of the buffer
ReadWord(buf, off) ==
    IF off \div WORD + 1 <= Len(buf) THEN buf[off \div WORD + 1] ELSE 0

\* allocator.rs:31-34 : &*(buffer.as_ptr().add(off) as *const EfiMemoryDescriptor)
\* field offsets of the repr(C) struct, efi.rs:104-113
ReadDesc(h, off) ==
    [memory_type     |-> ReadWord(h.memory_map_buffer, off),
     physical_start  |-> ReadWord(h.memory_map_buffer, off + 8),
     virtual_start   |-> ReadWord(h.memory_map_buffer, off + 16),
     number_of_pages |-> ReadWord(h.memory_map_buffer, off + 24),
     attribute       |-> ReadWord(h.memory_map_buffer, off + 32)]

----------------------------------------------------------------------------
(* BitmapFrameAllocator (memory/allocator.rs) *)

\* least and greatest element of a non-empty set of integers
Min(S) == CHOOSE x \in S : \A y \in S : x <= y
Max(S) == CHOOSE x \in S : \A y \in S : x >= y

\* allocator.rs:27
NumDesc(h) == h.memory_map_size \div h.descriptor_size

\* allocator.rs:29-37 walk_desc : the byte offsets visited, in order
WalkOffsetsNominal(h) == [i \in 1..NumDesc(h) |-> (i - 1) * DESC_SIZE]
WalkOffsets(h) == [i \in 1..NumDesc(h) |-> (i - 1) * h.descriptor_size]

\* the descriptors handed to the closure, in order
WalkDesc(h) == [i \in 1..NumDesc(h) |-> ReadDesc(h, WalkOffsets(h)[i])]

\* allocator.rs:41 : let end = d.physical_start + d.number_of_pages * 4096
DescEnd(d) == d.physical_start + d.number_of_pages * PAGE_KIB

\* allocator.rs:28,40-46 : the first walk; max_addr starts at 0 and is raised
\* to every end that is at most 4 GiB and above it, so it ends as the greatest
\* of 0 and those ends
MaxAddrUsableOnly(ds) ==
    Max({0} \cup {DescEnd(ds[i]) : i \in {j \in 1..Len(ds) :
                    /\ ds[j].memory_type = EFI_CONVENTIONAL
                    /\ DescEnd(ds[j]) <= FOUR_GIB_KIB}})
MaxAddr(ds) ==
    Max({0} \cup {DescEnd(ds[i]) : i \in {j \in 1..Len(ds) :
                    DescEnd(ds[j]) <= FOUR_GIB_KIB}})

\* allocator.rs:47
FrameCount(h) == MaxAddr(WalkDesc(h)) \div PAGE_KIB

\* allocator.rs:51
BytesNeededFloor(frame_count) == frame_count \div 8
BytesNeeded(frame_count) == (frame_count + 7) \div 8

\* allocator.rs:69-83 : the second walk; the indices whose bit it clears
ClearedByNoBound(d, frame_count) ==
    IF d.memory_type = EFI_CONVENTIONAL
    THEN LET start_frame == d.physical_start \div PAGE_KIB
             end_frame == start_frame + d.number_of_pages
         IN  start_frame..(end_frame - 1)
    ELSE {}
ClearedByNoTypeCheck(d, frame_count) ==
    LET start_frame == d.physical_start \div PAGE_KIB
        end_frame == start_frame + d.number_of_pages
    IN  {i \in start_frame..(end_frame - 1) : i < frame_count}
ClearedBy(d, frame_count) ==
    IF d.memory_type = EFI_CONVENTIONAL
    THEN LET start_frame == d.physical_start \div PAGE_KIB
             end_frame == start_frame + d.number_of_pages
         IN  {i \in start_frame..(end_frame - 1) : i < frame_count}
    ELSE {}

Cleared(h, frame_count) ==
    UNION {ClearedBy(WalkDesc(h)[i], frame_count) : i \in 1..NumDesc(h)}

\* allocator.rs:19-91 BitmapFrameAllocator::new : the allocator, or the panic
\* bitmap.fill(true) leaves no zero bit; the second walk clears Cleared(...)
NewDivFirst(h) ==
    IF h.descriptor_size = 0 THEN [kind |-> "panic", why |-> "divide_by_zero"]
    ELSE LET frame_count == FrameCount(h)
             bytes_needed == BytesNeeded(frame_count)
         IN  IF bytes_needed > BITMAP_STORAGE_SIZE_BYTES
             THEN [kind |-> "panic", why |-> "storage"]
             ELSE [kind |-> "allocator",
                   bitmap |-> [len |-> bytes_needed * 8,
                               zeros |-> Cleared(h, frame_count)],
                   frame_count |-> frame_count]
New(h) ==
    IF h.descriptor_size = 0 THEN [kind |-> "panic", why |-> "descriptor_size"]
    ELSE LET frame_count == FrameCount(h)
             bytes_needed == BytesNeeded(frame_count)
         IN  IF bytes_needed > BITMAP_STORAGE_SIZE_BYTES
             THEN [kind |-> "panic", why |-> "storage"]
             ELSE [kind |-> "allocator",
                   bitmap |-> [len |-> bytes_needed * 8,
                               zeros |-> Cleared(h, frame_count)],
                   frame_count |-> frame_count]

\* allocator.rs:22-37,40,69 : the descriptors new reads: none when the
\* descriptor_size check panics, each once in the first walk, and once more
\* in the second walk when the capacity check has passed
DescriptorsRead(h) ==
    IF h.descriptor_size = 0 THEN 0
    ELSE IF New(h).kind = "panic" THEN NumDesc(h) ELSE 2 * NumDesc(h)

\* allocator.rs:52-64 : the bytes of BITMAP_STORAGE that new writes; the slice
\* is taken and filled only after the capacity check has passed
StorageWritten(h) ==
    IF New(h).kind = "panic" THEN 0 ELSE BytesNeeded(New(h).frame_count)

\* allocator.rs:93-95
count_used_frames(a) == a.bitmap.len - Cardinality(a.bitmap.zeros)
count_free_frames(a) == Cardinality(a.bitmap.zeros)

\* allocator.rs:97-99
mark_used_none(bitmap, index) == bitmap
mark_used(bitmap, index) == [bitmap EXCEPT !.zeros = @ \ {index}]

\* allocator.rs:104-105 : the index the scan for idx in 0..frame_count stops at
ScanHitLast(a) ==
    LET free == {i \in a.bitmap.zeros : i < a.frame_count}
    IN  IF free = {} THEN None ELSE Max(free)
ScanHitFromOne(a) ==
    LET free == {i \in a.bitmap.zeros : 0 < i /\ i < a.frame_count}
    IN  IF free = {} THEN None ELSE Min(free)
ScanHit(a) ==
    LET free == {i \in a.bitmap.zeros : i < a.frame_count}
    IN  IF free = {} THEN None ELSE Min(free)

\* allocator.rs:103-112 allocate_frame : <<allocator after, result>>
AllocateNoMark(a) ==
    LET idx == ScanHit(a)
    IN  IF idx = None THEN <<a, None>> ELSE <<a, idx * PAGE_KIB>>
AllocateNoScale(a) ==
    LET idx == ScanHit(a)
    IN  IF idx = None THEN <<a, None>>
        ELSE <<[a EXCEPT !.bitmap = mark_used(a.bitmap, idx)], idx>>
Allocate(a) ==
    LET idx == ScanHit(a)
    IN  IF idx = None THEN <<a, None>>
        ELSE <<[a EXCEPT !.bitmap = mark_used(a.bitmap, idx)], idx * PAGE_KIB>>

----------------------------------------------------------------------------
(* BootInfoFrameAllocator (memory.rs) *)

\* memory.rs:62-65 : slice::from_raw_parts(buffer as *const
\* EfiMemoryDescriptor, num_desc) : element i lies size_of::<
\* EfiMemoryDescriptor>() bytes after element i - 1
BootInfoOffsets(h) == [i \in 1..NumDesc(h) |-> (i - 1) * DESC_SIZE]

\* memory.rs:60-71 BootInfoFrameAllocator::new ; the division at memory.rs:61
\* panics on a zero descriptor_size
BootInfoNew(h) ==
    IF h.descriptor_size = 0 THEN [kind |-> "panic", why |-> "divide_by_zero"]
    ELSE [kind |-> "bootinfo",
          memory_map |-> [i \in 1..NumDesc(h) |-> ReadDesc(h, BootInfoOffsets(h)[i])],
          next_desc |-> 0, offset |-> 0]

\* memory.rs:78-99 allocate_frame : <<allocator after, result>>, offset and
\* addresses in KiB
RECURSIVE BootInfoAllocate(_)
BootInfoAllocate(a) ==
    IF a.next_desc >= Len(a.memory_map) THEN <<a, None>>
    ELSE LET desc == a.memory_map[a.next_desc + 1]
             next == [a EXCEPT !.next_desc = @ + 1, !.offset = 0]
             region_start == desc.physical_start
             region_size == desc.number_of_pages * PAGE_KIB
             candidate == region_start + a.offset
         IN  IF desc.memory_type # EFI_CONVENTIONAL THEN BootInfoAllocate(next)
             ELSE IF candidate + PAGE_KIB <= region_start + region_size
                  THEN <<[a EXCEPT !.offset = @ + PAGE_KIB],
                         (candidate \div PAGE_KIB) * PAGE_KIB>>
                  ELSE BootInfoAllocate(next)

----------------------------------------------------------------------------
(* Snapshots: what the firmware's GetMemoryMap writes into the holder *)

\* bounds of the snapshots drawn
MaxDesc == 2
MaxPages == 2
ExtraNone == 1

StorageFrames == BITMAP_STORAGE_SIZE_BYTES * 8
CapFrames == FOUR_GIB_KIB \div PAGE_KIB

\* EfiReservedMemoryType and EfiConventionalMemory
MemTypes == {0, EFI_CONVENTIONAL}

\* frame numbers regions start at: low memory, the last frame the bitmap
\* storage can cover, and the last frame below 4 GiB
StartFrames == {0, 1, 3, StorageFrames - 1, CapFrames - 1}

Region(t, s, n) ==
    [memory_type |-> t, physical_start |-> s * PAGE_KIB, number_of_pages |-> n]

Regions ==
    {Region(t, s, n) : t \in MemTypes, s \in StartFrames, n \in 1..MaxPages}

RegionEnd(r) == r.physical_start + r.number_of_pages * PAGE_KIB

\* spec.md section 3: regions never overlap, by firmware contract
NonOverlapping(rs) ==
    \A i, j \in 1..Len(rs) :
        i < j => \/ RegionEnd(rs[i]) <= rs[j].physical_start
                 \/ RegionEnd(rs[j]) <= rs[i].physical_start

RegionLists ==
    {rs \in UNION {[1..k -> Regions] : k \in 0..MaxDesc} : NonOverlapping(rs)}

\* spec.md section 8, coverage fidelity
ExampleRegions ==
    <<Region(EFI_CONVENTIONAL, 0, 256), Region(0, 256, 16),
      Region(EFI_CONVENTIONAL, 272, 100)>>

\* Usable regions below 4 GiB, across it and wholly above it
AboveCapRegions ==
    <<Region(EFI_CONVENTIONAL, 1, 2), Region(EFI_CONVENTIONAL, CapFrames - 1, 2),
      Region(EFI_CONVENTIONAL, CapFrames + 1, 2)>>

\* descriptor stride in bytes, the word the padding holds, and bytes reported
\* past the last whole descriptor
Layouts ==
    {[stride |-> DESC_SIZE, pad |-> 0, tail |-> 0],
     [stride |-> DESC_SIZE + 8, pad |-> EFI_CONVENTIONAL, tail |-> 0],
     [stride |-> DESC_SIZE + 8, pad |-> EFI_CONVENTIONAL, tail |-> 8],
     [stride |-> DESC_SIZE + 16, pad |-> 1, tail |-> 0]}

Packed == [stride |-> DESC_SIZE, pad |-> 0, tail |-> 0]

Fill(n, w) == [k \in 1..n |-> w]

\* one descriptor as the firmware lays it out (efi.rs:104-113), then padding
EncodeDesc(r, lay) ==
    <<r.memory_type, r.physical_start, 0, r.number_of_pages, 15>>
        \o Fill((lay.stride - DESC_SIZE) \div WORD, lay.pad)

RECURSIVE EncodeMap(_, _)
EncodeMap(rs, lay) ==
    IF rs = <<>> THEN <<>>
    ELSE EncodeDesc(Head(rs), lay) \o EncodeMap(Tail(rs), lay)

\* efi.rs:45-51 get_memory_map, on success: the out-parameters as written
WriteMap(h, rs, lay, key) ==
    [h EXCEPT !.memory_map_buffer =
                  LET new == EncodeMap(rs, lay) \o Fill(lay.tail \div WORD, lay.pad)
                  IN  new \o SubSeq(@, Len(new) + 1, Len(@)),
              !.memory_map_size = Len(rs) * lay.stride + lay.tail,
              !.map_key = key,
              !.descriptor_size = lay.stride,
              !.descriptor_version = 1]

----------------------------------------------------------------------------
(* The allocator on its own: built from any snapshot, then asked for frames *)

FwNone == [key |-> 0, rejects |-> 0, rejects0 |-> 0, fails |-> 0, exited |-> FALSE]

----------------------------------------------------------------------------
(* Page tables (memory/mapper.rs) *)

\* mapper.rs:5-7 : the flag bits of a page-table entry
PAGE_PRESENT == 1
PAGE_WRITABLE == 2
PAGE_HUGE == 128

\* 1 << 30 bytes (mapper.rs:18), in KiB
GIB_KIB == 1048576
\* mapper.rs:10 : struct PageTable([u64; 512])
TABLE_ENTRIES == 512

\* a page-table entry `addr | flags` : the address (4 KiB aligned, so its low
\* twelve bits are free) in KiB, and the set of flag bits or-ed into it
Entry(addr, flags) == [addr |-> addr, flags |-> flags]
ZeroEntry == Entry(0, {})

\* mapper.rs:12-13 : PageTable([0; 512])
ZeroTable == [i \in 0..(TABLE_ENTRIES - 1) |-> ZeroEntry]

\* where the image's statics PML4_TABLE and PDP_TABLE lie (repr(align(4096)),
\* mapper.rs:9-13), in KiB: <<&PML4_TABLE, &PDP_TABLE>>
TableAddrs == {<<1024, 1028>>, <<2097152 + 8, 2097152 + 4>>}

\* mapper.rs:17 : for i in 0..4
PdpLoopOffByOne == 0..4
PdpLoop == 0..3

\* mapper.rs:17-20 : PDP_TABLE.0[i] = (i << 30) | PRESENT | WRITABLE | HUGE
InitPdp(t) ==
    [i \in DOMAIN t |->
        IF i \in PdpLoop
        THEN Entry(i * GIB_KIB, {PAGE_PRESENT, PAGE_WRITABLE, PAGE_HUGE})
        ELSE t[i]]

\* mapper.rs:21 : PML4_TABLE.0[0] = &PDP_TABLE | PRESENT | WRITABLE
InitPml4(t, pdp_addr) ==
    [t EXCEPT ![0] = Entry(pdp_addr, {PAGE_PRESENT, PAGE_WRITABLE})]

\* main.rs:170 : test_addr = 0x3FF0_0000, in KiB
SMOKE_TEST_ADDR_KIB == 1047552

\* one privileged operation or raw memory access of the kernel, in the order
\* made: what it is and the address it touches (None when it has none)
Event(op, addr) == [op |-> op, addr |-> addr]

\* memory/mod.rs:15 : LockedHeap::empty()
NoHeap == [start |-> 0, size |-> 0]

\* the kernel's statics before efi_main acts: both page tables zero and the
\* firmware's tables still in CR3, the heap not initialised, BITMAP_STORAGE
\* (allocator.rs:9) not written, no protocol pointer dereferenced, nothing
\* logged
KernAt(addrs) ==
    [paging |-> FALSE, heap_inits |-> 0, storage_written |-> 0,
     gop_deref |-> "none", heap |-> NoHeap, log |-> <<>>,
     bfa |-> NoAllocator, bfa_returned |-> <<>>, counted |-> None,
     pml4_addr |-> addrs[1], pdp_addr |-> addrs[2],
     pml4 |-> ZeroTable, pdp |-> ZeroTable, cr3 |-> "firmware"]

KernNew == KernAt(<<1024, 1028>>)

\* a drawn snapshot in the holder, the code at position p
InitSnapshot(p) ==
    /\ \E rs \in RegionLists \cup {ExampleRegions, AboveCapRegions},
          lay \in Layouts :
           /\ holder = WriteMap(HolderNew, rs, lay, 1)
           /\ snap = [regions |-> rs, layout |-> lay,
                      written |-> holder, at_exit |-> holder]
    /\ pc = p
    /\ fw = FwNone
    /\ calls = <<>>
    /\ steps = <<>>
    /\ fa = NoAllocator
    /\ returned = <<>>
    /\ kern = KernNew

InitAlloc == InitSnapshot("t_new")

\* BitmapFrameAllocator::new(&holder, ..)
TNew ==
    /\ pc = "t_new"
    /\ fa' = New(holder)
    /\ kern' = [kern EXCEPT !.storage_written = StorageWritten(holder)]
    /\ pc' = IF fa'.kind = "panic" THEN "t_panic" ELSE "t_alloc"
    /\ UNCHANGED <<fw, calls, steps, holder, snap, returned>>

NoneCount(rets) == Cardinality({i \in 1..Len(rets) : rets[i] = None})

\* fa.allocate_frame()
TAllocate ==
    /\ pc = "t_alloc"
    /\ NoneCount(returned) <= ExtraNone
    /\ fa' = Allocate(fa)[1]
    /\ returned' = Append(returned, Allocate(fa)[2])
    /\ kern' = [kern EXCEPT !.counted = None]
    /\ UNCHANGED <<pc, fw, calls, steps, holder, snap>>

\* fa.count_free_frames() : kern.counted is what the latest call returned,
\* None once allocate_frame has been called since
TCountFree ==
    /\ pc = "t_alloc"
    /\ kern.counted = None
    /\ kern' = [kern EXCEPT !.counted = count_free_frames(fa)]
    /\ UNCHANGED <<pc, fw, calls, steps, holder, snap, fa, returned>>

NextAlloc == TNew \/ TAllocate

SpecAlloc == InitAlloc /\ [][NextAlloc]_vars

\* new on snapshots whose descriptor_size is 0: the bytes of a drawn map
\* with the stride field zero and any byte length
ZeroStrideSizes == {0, DESC_SIZE, 2 * DESC_SIZE, MEMORY_MAP_BUFFER_SIZE}

InitZero ==
    /\ \E rs \in RegionLists, size \in ZeroStrideSizes :
           /\ holder = [WriteMap(HolderNew, rs, Packed, 1) EXCEPT
                            !.descriptor_size = 0, !.memory_map_size = size]
           /\ snap = [regions |-> rs, layout |-> Packed,
                      written |-> holder, at_exit |-> holder]
    /\ pc = "t_new"
    /\ fw = FwNone
    /\ calls = <<>>
    /\ steps = <<>>
    /\ fa = NoAllocator
    /\ returned = <<>>
    /\ kern = KernNew

NextZero == TNew

SpecZero == InitZero /\ [][NextZero]_vars

\* the allocator with its free frames counted between the calls
NextCount == TNew \/ TAllocate \/ TCountFree

SpecCount == InitAlloc /\ [][NextCount]_vars

----------------------------------------------------------------------------
(* The older BootInfoFrameAllocator on its own, on the same snapshots *)

InitBoot == InitSnapshot("b_new")

\* BootInfoFrameAllocator::new(&holder)
TBootNew ==
    /\ pc = "b_new"
    /\ kern' = [kern EXCEPT !.bfa = BootInfoNew(holder)]
    /\ pc' = IF kern'.bfa.kind = "panic" THEN "b_panic" ELSE "b_alloc"
    /\ UNCHANGED <<fw, calls, steps, holder, snap, fa, returned>>

\* BootInfoFrameAllocator::allocate_frame()
TBootAllocate ==
    /\ pc = "b_alloc"
    /\ NoneCount(kern.bfa_returned) <= ExtraNone
    /\ kern' = [kern EXCEPT !.bfa = BootInfoAllocate(kern.bfa)[1],
                             !.bfa_returned =
                                 Append(@, BootInfoAllocate(kern.bfa)[2])]
    /\ UNCHANGED <<pc, fw, calls, steps, holder, snap, fa, returned>>

NextBoot == TBootNew \/ TBootAllocate

SpecBoot == InitBoot /\ [][NextBoot]_vars

----------------------------------------------------------------------------
(* The firmware (the functions behind the EfiBootServicesTable pointers) *)

\* bounds: exit attempts the firmware rejects although the key is current,
\* and GetMemoryMap calls it fails
MaxRejects == 2
MaxMapFailures == 1

\* the maps the firmware reports in the boot sequence
FwMaps ==
    {<<Region(0, 0, 1), Region(EFI_CONVENTIONAL, 1, 2)>>,
     <<Region(EFI_CONVENTIONAL, 0, 1), Region(0, 1, 2)>>,
     <<Region(EFI_CONVENTIONAL, 3, 2), Region(EFI_CONVENTIONAL, CapFrames - 1, 2)>>,
     <<Region(0, 0, 1), Region(EFI_CONVENTIONAL, HEAP_START_KIB \div PAGE_KIB, 2)>>}

FwLayouts == {Packed, [stride |-> DESC_SIZE + 8, pad |-> EFI_CONVENTIONAL, tail |-> 0]}

\* efi.rs:53 exit_boot_services : the key must be that of the current map; the
\* first fw.rejects attempts fail all the same and change the map (a new key)
FwExit(f, key) ==
    IF key # f.key THEN <<f, "InvalidParameter">>
    ELSE IF f.rejects > 0
         THEN <<[f EXCEPT !.rejects = @ - 1, !.key = @ + 1], "InvalidParameter">>
         ELSE <<[f EXCEPT !.exited = TRUE], "Success">>

\* efi.rs:35-40 : EfiStatus has the one variant Success = 0, and the firmware
\* returns any u64.  A status other than 0 is no value of the type, so what
\* `status == EfiStatus::Success` (derived PartialEq) yields for it is not
\* defined: a build may compare the raw value or fold the comparison to true.
StatusEqSuccess(status) ==
    IF status = "Success" THEN {TRUE} ELSE {TRUE, FALSE}

----------------------------------------------------------------------------
(* efi_main (main.rs:53-136) *)

\* the statements of efi_main in program order; "get_map" is the top of the
\* loop of exit_from_efi_boot_services, "halt" the panic handler's loop {}
ProgramHeapEarly ==
    <<"framebuffer", "stall", "holder_new", "get_map", "gdt", "idt", "heap",
      "paging", "smoke", "heap_test", "fa_new", "alloc1", "alloc2", "spin">>
ProgramPagingFirst ==
    <<"framebuffer", "stall", "paging", "holder_new", "get_map", "gdt", "idt",
      "smoke", "fa_new", "alloc1", "alloc2", "heap", "heap_test", "spin">>
Program ==
    <<"framebuffer", "stall", "holder_new", "get_map", "gdt", "idt", "paging",
      "smoke", "heap", "heap_test", "fa_new", "alloc1", "alloc2", "spin">>

After(p) == Program[(CHOOSE i \in 1..Len(Program) : Program[i] = p) + 1]

\* one firmware call: the operation, its argument, the status it returned and
\* the map key it wrote (0 when it wrote none)
Call(op, arg, status, key) == [op |-> op, arg |-> arg, status |-> status, key |-> key]

Init ==
    /\ pc = Program[1]
    /\ \E k \in 0..MaxRejects :
           fw = [key |-> 1, rejects |-> k, rejects0 |-> k, fails |-> 0,
                 exited |-> FALSE]
    /\ calls = <<>>
    /\ steps = <<>>
    /\ holder = HolderNew
    /\ snap = [regions |-> <<>>, layout |-> Packed,
               written |-> HolderNew, at_exit |-> HolderNew]
    /\ fa = NoAllocator
    /\ returned = <<>>
    /\ \E addrs \in TableAddrs : kern = KernAt(addrs)

\* efi.rs:158-163 : gop_ptr starts as null_mut() and locate_protocol stores
\* the interface in it only when it succeeds
GopPtr(status) == IF status = "Success" THEN "protocol" ELSE "null"

\* efi.rs:165-167 : if status != EfiStatus::Success { return Err(..) }
FramebufferErr(eq) == ~eq

\* main.rs:54 framebuffer(system_table).expect(..), efi.rs:156-185 : the Err
\* makes expect panic; otherwise &*gop_ptr is dereferenced (efi.rs:169)
Framebuffer ==
    /\ pc = "framebuffer"
    /\ \E status \in {"Success", "NotFound"} :
         \E eq \in StatusEqSuccess(status) :
           /\ calls' = Append(calls, Call("locate_protocol", 0, status, 0))
           /\ IF FramebufferErr(eq)
              THEN /\ steps' = steps
                   /\ kern' = kern
                   /\ pc' = "halt"
              ELSE /\ steps' = Append(steps, "framebuffer")
                   /\ kern' = [kern EXCEPT !.gop_deref = GopPtr(status)]
                   /\ pc' = After("framebuffer")
    /\ UNCHANGED <<fw, holder, snap, fa, returned>>

\* main.rs:57-60 ui::home(&mut fb); (boot_services.stall)(1_000_000)
Stall ==
    /\ pc = "stall"
    /\ calls' = Append(calls, Call("stall", 1000000, "Success", 0))
    /\ steps' = Append(steps, "stall")
    /\ pc' = After("stall")
    /\ UNCHANGED <<fw, holder, snap, fa, returned, kern>>

\* main.rs:66 MemoryMapHolder::new()
HolderInit ==
    /\ pc = "holder_new"
    /\ holder' = HolderNew
    /\ steps' = Append(steps, "holder_new")
    /\ pc' = After("holder_new")
    /\ UNCHANGED <<fw, calls, snap, fa, returned, kern>>

\* efi.rs:144 : the size handed to the firmware on every call
SizeArgStale(h) == h.memory_map_size
SizeArg(h) == MEMORY_MAP_BUFFER_SIZE

\* main.rs:145-147 and efi.rs:142-152 : call_get_memory_map, then the assert_eq
GetMemoryMap ==
    /\ pc = "get_map"
    /\ LET h1 == [holder EXCEPT !.memory_map_size = SizeArg(holder)]
       IN  \/ \E rs \in FwMaps, lay \in FwLayouts :
                /\ holder' = WriteMap(h1, rs, lay, fw.key)
                /\ snap' = [snap EXCEPT !.regions = rs, !.layout = lay,
                                        !.written = holder']
                /\ calls' = Append(calls,
                       Call("get_memory_map", h1.memory_map_size, "Success", fw.key))
                /\ steps' = Append(steps, "capture")
                /\ pc' = "exit_bs"
                /\ fw' = fw
           \/ /\ fw.fails < MaxMapFailures
              /\ holder' = h1
              /\ snap' = snap
              /\ calls' = Append(calls,
                     Call("get_memory_map", h1.memory_map_size, "DeviceError", 0))
              /\ fw' = [fw EXCEPT !.fails = @ + 1]
              /\ steps' = steps
              /\ \E eq \in StatusEqSuccess("DeviceError") :
                     pc' = IF eq THEN "exit_bs" ELSE "halt"
    /\ UNCHANGED <<fa, returned, kern>>

\* main.rs:150-152 : if status == EfiStatus::Success { break; }
ExitLoopBreakInverted(eq) == ~eq
ExitLoopBreak(eq) == eq

\* main.rs:149 : the key handed to exit_boot_services
ExitKey(h) == h.map_key

\* main.rs:149-152 : (st.exit_boot_services)(image_handle, map_key), then the test
ExitBootServices ==
    /\ pc = "exit_bs"
    /\ LET r == FwExit(fw, ExitKey(holder))
       IN  /\ fw' = r[1]
           /\ calls' = Append(calls, Call("exit_boot_services", ExitKey(holder), r[2], 0))
           /\ \E eq \in StatusEqSuccess(r[2]) :
                IF ExitLoopBreak(eq)
                THEN /\ steps' = Append(steps, "handshake")
                     /\ pc' = After("get_map")
                ELSE /\ steps' = steps
                     /\ pc' = "get_map"
           /\ snap' = IF r[2] = "Success"
                      THEN [snap EXCEPT !.at_exit = holder]
                      ELSE snap
    /\ UNCHANGED <<holder, fa, returned, kern>>

\* main.rs:70-72 fb.clear(COLOR_WHITE); gdt::init()
GdtInit ==
    /\ pc = "gdt"
    /\ steps' = Append(steps, "gdt")
    /\ pc' = After("gdt")
    /\ UNCHANGED <<fw, calls, holder, snap, fa, returned, kern>>

\* main.rs:74 interrupts::init()
IdtInit ==
    /\ pc = "idt"
    /\ steps' = Append(steps, "idt")
    /\ pc' = After("idt")
    /\ UNCHANGED <<fw, calls, holder, snap, fa, returned, kern>>

\* main.rs:76 memory::init_paging(), mapper.rs:16-25
InitPaging ==
    /\ pc = "paging"
    /\ kern' = [kern EXCEPT !.pdp = InitPdp(@),
                             !.pml4 = InitPml4(@, kern.pdp_addr),
                             !.cr3 = kern.pml4_addr,
                             !.log = Append(@, Event("load_cr3", None)),
                             !.paging = TRUE]
    /\ steps' = Append(steps, "paging")
    /\ pc' = After("paging")
    /\ UNCHANGED <<fw, calls, holder, snap, fa, returned>>

\* main.rs:169-173 : interrupts::disable(); write_volatile and read_volatile
\* of test_addr; interrupts::enable()
SmokeTestEnableEarly ==
    <<Event("disable", None), Event("write", SMOKE_TEST_ADDR_KIB),
      Event("enable", None), Event("read", SMOKE_TEST_ADDR_KIB)>>
SmokeTest ==
    <<Event("disable", None), Event("write", SMOKE_TEST_ADDR_KIB),
      Event("read", SMOKE_TEST_ADDR_KIB), Event("enable", None)>>

\* main.rs:78 paging_smoke_test(&mut fb), main.rs:168-181
PagingSmokeTest ==
    /\ pc = "smoke"
    /\ kern' = [kern EXCEPT !.log = @ \o SmokeTest]
    /\ steps' = Append(steps, "smoke")
    /\ pc' = After("smoke")
    /\ UNCHANGED <<fw, calls, holder, snap, fa, returned>>

\* main.rs:80 memory::init_heap(), memory/mod.rs:18-20
InitHeap ==
    /\ pc = "heap"
    /\ kern' = [kern EXCEPT !.heap_inits = @ + 1,
                             !.heap = [start |-> HEAP_START_KIB,
                                       size |-> HEAP_SIZE_KIB]]
    /\ steps' = Append(steps, "heap")
    /\ pc' = After("heap")
    /\ UNCHANGED <<fw, calls, holder, snap, fa, returned>>

\* main.rs:85-97 test_vec.try_reserve_exact(1024)
HeapTest ==
    /\ pc = "heap_test"
    /\ steps' = Append(steps, "heap_test")
    /\ pc' = After("heap_test")
    /\ UNCHANGED <<fw, calls, holder, snap, fa, returned, kern>>

\* main.rs:114 : the holder handed to new is mmap, the one the handshake filled
FaNewArgFresh(h) == HolderNew
FaNewArg(h) == h

\* main.rs:114 fa = BitmapFrameAllocator::new(&mmap, &mut fb)
FaNew ==
    /\ pc = "fa_new"
    /\ fa' = New(FaNewArg(holder))
    /\ IF fa'.kind = "panic"
       THEN /\ pc' = "halt"
            /\ steps' = steps
       ELSE /\ pc' = After("fa_new")
            /\ steps' = Append(steps, "fa_new")
    /\ kern' = [kern EXCEPT !.storage_written = StorageWritten(FaNewArg(holder))]
    /\ UNCHANGED <<fw, calls, holder, snap, returned>>

\* main.rs:115-116 let f1 = fa.allocate_frame(); let f2 = fa.allocate_frame()
FaAllocate ==
    /\ pc \in {"alloc1", "alloc2"}
    /\ fa' = Allocate(fa)[1]
    /\ returned' = Append(returned, Allocate(fa)[2])
    /\ steps' = Append(steps, pc)
    /\ pc' = After(pc)
    /\ UNCHANGED <<fw, calls, holder, snap, kern>>

Next ==
    \/ Framebuffer \/ Stall \/ HolderInit \/ GetMemoryMap \/ ExitBootServices
    \/ GdtInit \/ IdtInit \/ InitPaging \/ PagingSmokeTest \/ InitHeap
    \/ HeapTest \/ FaNew \/ FaAllocate

Spec == Init /\ [][Next]_vars

----------------------------------------------------------------------------
(* Vocabulary of the properties *)

\* the results of the successful allocate_frame calls, in order
Successes == SelectSeq(returned, LAMBDA r : r # None)

\* the frame indices handed out so far
ReturnedFrames ==
    LET S == Successes IN {S[k] \div PAGE_KIB : k \in 1..Len(S)}

IsUsable(r) == r.memory_type = EFI_CONVENTIONAL

FramesOf(r) ==
    (r.physical_start \div PAGE_KIB) ..
        (r.physical_start \div PAGE_KIB + r.number_of_pages - 1)

\* the frames of the snapshot's Usable regions, and of its other regions
UsableFrames == UNION {FramesOf(snap.regions[i]) :
                          i \in {j \in 1..Len(snap.regions) : IsUsable(snap.regions[j])}}
OtherFrames == UNION {FramesOf(snap.regions[i]) :
                          i \in {j \in 1..Len(snap.regions) : ~IsUsable(snap.regions[j])}}

RECURSIVE SumPages(_)
SumPages(rs) ==
    IF rs = <<>> THEN 0 ELSE Head(rs).number_of_pages + SumPages(Tail(rs))

\* total page count of the Usable regions, and of those ending at most at 4 GiB
UsablePages == SumPages(SelectSeq(snap.regions, IsUsable))
UsablePagesBelowCap ==
    SumPages(SelectSeq(snap.regions,
                 LAMBDA r : IsUsable(r) /\ RegionEnd(r) <= FOUR_GIB_KIB))

Built == fa.kind = "allocator"
Exhausted == Len(returned) > 0 /\ returned[Len(returned)] = None

----------------------------------------------------------------------------
(* C1 *)

\* C1 (exclusivity): no physical frame address is returned by two different
\* successful allocate_frame calls on one allocator.
C1_Exclusivity ==
    LET S == Successes
    IN  Cardinality({S[k] : k \in 1..Len(S)}) = Len(S)

\* two frames have been handed out
C1_Witness == Built /\ Len(Successes) >= 2

----------------------------------------------------------------------------
(* C2 *)

\* C2 as claimed: for any snapshot of non-overlapping regions the allocator
\* yields exactly as many frames as the total page count of its Usable regions
\* before the first None, and never a frame of a non-Usable region.
C2_Original ==
    Built => /\ Exhausted => Len(Successes) = UsablePages
             /\ ReturnedFrames \cap OtherFrames = {}

\* C2 (coverage fidelity), amended: an allocator built from a snapshot of
\* non-overlapping regions yields, before allocate_frame first returns None,
\* exactly as many frames as the total page count of the Usable regions that
\* end at or below 4 GiB; every frame it yields lies in a Usable region and
\* none in a non-Usable one; the example map yields exactly 356 frames, none
\* with index in [256, 272).
C2_Coverage ==
    Built => /\ Len(Successes) <= UsablePagesBelowCap
             /\ Exhausted => Len(Successes) = UsablePagesBelowCap
             /\ ReturnedFrames \subseteq UsableFrames
             /\ ReturnedFrames \cap OtherFrames = {}
             /\ snap.regions = ExampleRegions =>
                    /\ Exhausted => Len(Successes) = 356
                    /\ ReturnedFrames \cap (256..271) = {}

\* the example map, exhausted after 356 frames
C2_Witness ==
    /\ Built /\ Exhausted
    /\ snap.regions = ExampleRegions
    /\ Len(Successes) = 356

----------------------------------------------------------------------------
(* C3 *)

\* C3 (stride independence): new visits floor(memory_map_size /
\* descriptor_size) descriptors, descriptor i at byte offset
\* i * descriptor_size; with a stride above the nominal descriptor size the
\* bitmap and frame_count (or the panic) are those of the same regions packed
\* without padding, whatever the padding holds.
C3_Stride ==
    (pc \in {"t_alloc", "t_panic"} /\ returned = <<>>) =>
        /\ Len(WalkOffsets(holder)) = Len(snap.regions)
        /\ \A i \in 1..Len(snap.regions) :
               WalkOffsets(holder)[i] = (i - 1) * snap.layout.stride
        /\ WalkDesc(holder) =
               [i \in 1..Len(snap.regions) |->
                   [memory_type |-> snap.regions[i].memory_type,
                    physical_start |-> snap.regions[i].physical_start,
                    virtual_start |-> 0,
                    number_of_pages |-> snap.regions[i].number_of_pages,
                    attribute |-> 15]]
        /\ fa = New(WriteMap(HolderNew, snap.regions, Packed, 1))

\* an allocator built from two padded descriptors whose padding is not zero
C3_Witness ==
    /\ pc = "t_alloc" /\ returned = <<>>
    /\ snap.layout.stride > DESC_SIZE /\ snap.layout.pad # 0
    /\ Len(snap.regions) >= 2
    /\ Built /\ fa.bitmap.zeros # {}

----------------------------------------------------------------------------
(* C8 *)

\* C8 as claimed: frame_count is the highest end address over the Usable
\* regions, capped at 4 GiB, divided by 4096.
C8_Original ==
    Built =>
        fa.frame_count =
            Max({0} \cup {IF RegionEnd(snap.regions[i]) <= FOUR_GIB_KIB
                          THEN RegionEnd(snap.regions[i]) ELSE FOUR_GIB_KIB :
                          i \in {j \in 1..Len(snap.regions) :
                                    IsUsable(snap.regions[j])}})
                \div PAGE_KIB

\* the ends of the regions, of any type, that end at or below 4 GiB
EndsBelowCap ==
    {RegionEnd(snap.regions[i]) :
        i \in {j \in 1..Len(snap.regions) :
                  RegionEnd(snap.regions[j]) <= FOUR_GIB_KIB}}

\* C8 (frame_count derivation), amended: after new, frame_count is the highest
\* end address over the regions of any type that end at or below 4 GiB,
\* divided by 4096, and 0 when there is none; a region ending above 4 GiB is
\* left out, not clamped.
C8_FrameCount ==
    Built => /\ EndsBelowCap = {} => fa.frame_count = 0
             /\ EndsBelowCap # {} =>
                    /\ fa.frame_count * PAGE_KIB \in EndsBelowCap
                    /\ \A e \in EndsBelowCap : e <= fa.frame_count * PAGE_KIB

\* frame_count set by a non-Usable region while a Usable region ends above 4 GiB
C8_Witness ==
    /\ Built /\ fa.frame_count > 0
    /\ \E i \in 1..Len(snap.regions) :
           /\ ~IsUsable(snap.regions[i])
           /\ RegionEnd(snap.regions[i]) = fa.frame_count * PAGE_KIB
    /\ \E i \in 1..Len(snap.regions) :
           /\ IsUsable(snap.regions[i])
           /\ RegionEnd(snap.regions[i]) > FOUR_GIB_KIB

----------------------------------------------------------------------------
(* C9 *)

\* C9 (bitmap meaning): after build and any number of allocate_frame calls,
\* for i < frame_count bit i is 0 exactly when frame i lies in a Usable region
\* and has not been returned; every other bit, the padding up to the byte
\* boundary included, is 1.
C9_Bitmap ==
    Built =>
        /\ fa.bitmap.zeros =
               {i \in UsableFrames : i < fa.frame_count} \ ReturnedFrames
        /\ \A i \in fa.bitmap.zeros : 0 <= i /\ i < fa.frame_count
        /\ fa.bitmap.len = 8 * ((fa.frame_count + 7) \div 8)

\* some frames handed out, some still free, and a non-Usable frame below
\* frame_count
C9_Witness ==
    /\ Built /\ Len(Successes) >= 1 /\ fa.bitmap.zeros # {}
    /\ \E i \in OtherFrames : i < fa.frame_count
    /\ fa.bitmap.len > fa.frame_count

----------------------------------------------------------------------------
(* C10 *)

\* the frames the snapshot makes allocatable
Allocatable == {i \in UsableFrames : i < fa.frame_count}

\* C10 (scan order): each successful allocate_frame returns the lowest-indexed
\* free frame: the addresses returned are strictly increasing, and every
\* allocatable frame of the snapshot not yet returned lies above all that were,
\* so the k-th success is the k-th smallest allocatable frame of the snapshot.
C10_ScanOrder ==
    Built =>
        LET S == Successes
            A == Allocatable
            R == {S[k] \div PAGE_KIB : k \in 1..Len(S)}
        IN  /\ \A k \in 1..Len(S) : S[k] = (S[k] \div PAGE_KIB) * PAGE_KIB
            /\ \A k \in 1..(Len(S) - 1) : S[k] < S[k + 1]
            /\ R \subseteq A
            /\ Len(S) > 0 =>
                   LET last == S[Len(S)] \div PAGE_KIB
                   IN  \A f \in A \ R : last < f

\* two frames returned that are not neighbours
C10_Witness ==
    /\ Built /\ Len(Successes) >= 2
    /\ Successes[2] > Successes[1] + PAGE_KIB

----------------------------------------------------------------------------
(* Vocabulary of the boot sequence's properties *)

CountOp(op) == Cardinality({i \in 1..Len(calls) : calls[i].op = op})

StepPos(s) == {i \in 1..Len(steps) : steps[i] = s}

\* step b has happened only after step a
Precedes(a, b) == \A j \in StepPos(b) : \E i \in StepPos(a) : i < j

\* exit_from_efi_boot_services has returned
HandshakeReturned == StepPos("handshake") # {}

\* the firmware accepted an exit attempt at call i
Accepted(i) ==
    calls[i].op = "exit_boot_services" /\ calls[i].status = "Success"

----------------------------------------------------------------------------
(* C4 *)

\* C4 (handshake termination): against a firmware that rejects the first k
\* offered keys and accepts the next (its map queries succeeding),
\* exit_from_efi_boot_services returns after exactly k+1 iterations: k+1 map
\* captures and k+1 exit attempts.
C4_Termination ==
    (HandshakeReturned /\ fw.fails = 0) =>
        /\ CountOp("get_memory_map") = fw.rejects0 + 1
        /\ CountOp("exit_boot_services") = fw.rejects0 + 1

----------------------------------------------------------------------------
(* C5 *)

\* C5 (one-way exit): once the firmware's exit call has returned success, no
\* firmware operation is invoked again: the accepted exit attempt is the last
\* firmware call of the boot sequence.
C5_OneWay ==
    /\ \A i \in 1..Len(calls) : Accepted(i) => i = Len(calls)
    /\ fw.exited => Len(calls) > 0 /\ Accepted(Len(calls))

\* the boot sequence ran to its final loop after the firmware accepted the exit
C5_Witness ==
    /\ pc = "spin" /\ fw.exited
    /\ StepPos("fa_new") # {} /\ StepPos("heap") # {}

----------------------------------------------------------------------------
(* C6 *)

\* C6 (freshness): every exit attempt is made with the key written by the map
\* capture of the same iteration, with no firmware operation between the two;
\* a rejected attempt leads back to a map capture, and an accepted one is
\* terminal.
C6_Freshness ==
    /\ \A i \in 1..Len(calls) :
           calls[i].op = "exit_boot_services" =>
               /\ i > 1
               /\ calls[i - 1].op = "get_memory_map"
               /\ calls[i - 1].status = "Success"
               /\ calls[i].arg = calls[i - 1].key
    /\ \A i \in 1..Len(calls) :
           (calls[i].op = "exit_boot_services" /\ ~Accepted(i)) =>
               IF i = Len(calls) THEN pc = "get_map"
               ELSE calls[i + 1].op = "get_memory_map"
    /\ \A i \in 1..Len(calls) : Accepted(i) => i = Len(calls)

----------------------------------------------------------------------------
(* C7 *)

\* C7 as claimed: graphics handle, then identity mapping, then map capture and
\* exit, then FrameAllocator, then HeapAllocator.
C7_Original ==
    /\ Precedes("framebuffer", "paging")
    /\ Precedes("paging", "capture")
    /\ \A i \in StepPos("capture"), j \in StepPos("handshake") : i < j
    /\ Precedes("handshake", "fa_new")
    /\ Precedes("fa_new", "heap")

\* C7 (boot order), amended: the graphics handle is resolved, then the memory
\* map is captured and exit_from_efi_boot_services returns, then the identity
\* mapping is installed, then the HeapAllocator is initialised, then the
\* FrameAllocator is built from the captured snapshot.
C7_BootOrder ==
    /\ Precedes("framebuffer", "capture")
    /\ Precedes("framebuffer", "handshake")
    /\ \A i \in StepPos("capture"), j \in StepPos("handshake") : i < j
    /\ Precedes("handshake", "paging")
    /\ Precedes("paging", "heap")
    /\ Precedes("heap", "fa_new")

\* every step of the order has happened
C7_Witness ==
    /\ pc = "spin"
    /\ StepPos("framebuffer") # {} /\ StepPos("capture") # {}
    /\ StepPos("handshake") # {} /\ StepPos("paging") # {}
    /\ StepPos("heap") # {} /\ StepPos("fa_new") # {}

----------------------------------------------------------------------------
(* C11 *)

\* the bits of [0, frame_count) that are 0
FreeBits(a) == {i \in a.bitmap.zeros : 0 <= i /\ i < a.frame_count}

\* C11 (exhaustion): a call of allocate_frame returns None if and only if no
\* bit in [0, frame_count) is 0 when it is made; a call that returns None
\* leaves the bitmap and frame_count as they were; and once a call has
\* returned None, every later call returns None.
C11_Exhaustion ==
    [][returned' # returned =>
          LET r == returned'[Len(returned')]
          IN  /\ (r = None) <=> (FreeBits(fa) = {})
              /\ r = None => fa' = fa
              /\ Exhausted => r = None]_vars

\* frames were handed out, then two calls in a row returned None
C11_Witness ==
    /\ Built /\ Len(Successes) >= 1
    /\ Len(returned) >= 3
    /\ returned[Len(returned)] = None
    /\ returned[Len(returned) - 1] = None
    /\ returned[Len(returned) - 2] # None

----------------------------------------------------------------------------
(* C12 *)

\* frame_count as the snapshot's regions give it
SnapFrameCount == Max({0} \cup EndsBelowCap) \div PAGE_KIB

\* new has run
Constructed == fa.kind \in {"allocator", "panic"}

\* C12 (capacity failure is fatal): on a snapshot with a non-zero stride, new
\* panics for lack of storage exactly when ceil(frame_count / 8) exceeds the
\* 102400 bytes of bitmap storage; the panic produces no allocator and writes
\* no byte of the storage, so clears no bit; whenever frame_count needs at
\* most 102400 bytes, construction completes with that frame_count.
C12_Capacity ==
    (Constructed /\ returned = <<>> /\ holder.descriptor_size # 0) =>
        LET over == (SnapFrameCount + 7) \div 8 > BITMAP_STORAGE_SIZE_BYTES
        IN  /\ (fa.kind = "panic") <=> over
            /\ over => /\ fa = [kind |-> "panic", why |-> "storage"]
                        /\ kern.storage_written = 0
            /\ ~over => /\ Built
                         /\ fa.frame_count = SnapFrameCount
                         /\ kern.storage_written = (SnapFrameCount + 7) \div 8

\* a snapshot one frame larger than the storage covers: the panic
C12_Witness ==
    /\ fa = [kind |-> "panic", why |-> "storage"]
    /\ SnapFrameCount = StorageFrames + 1

----------------------------------------------------------------------------
(* C13 *)

\* the boot steps that follow the handshake
LaterSteps == {"handshake", "gdt", "idt", "paging", "smoke", "heap",
               "heap_test", "fa_new", "alloc1", "alloc2"}

\* C13 (map-query failure is fatal): a get_memory_map call that returns a
\* non-success status is the last firmware call of the boot sequence: the
\* sequence is halted, no exit attempt and no further query follows it, and no
\* later boot step (GDT/IDT init, paging, heap, frame allocator) has run.
C13_MapQueryFatal ==
    \A i \in 1..Len(calls) :
        (calls[i].op = "get_memory_map" /\ calls[i].status # "Success") =>
            /\ i = Len(calls)
            /\ pc = "halt"
            /\ \A s \in LaterSteps : StepPos(s) = {}

----------------------------------------------------------------------------
(* C14 *)

\* C14 (graphics lookup failure is fatal): when locate_protocol reports a
\* non-success status, framebuffer returns the error without dereferencing
\* the protocol pointer and the boot sequence is halted: no memory map is
\* captured and no exit attempted.
C14_GraphicsFatal ==
    \A i \in 1..Len(calls) :
        (calls[i].op = "locate_protocol" /\ calls[i].status # "Success") =>
            /\ kern.gop_deref = "none"
            /\ pc = "halt"
            /\ i = Len(calls)
            /\ StepPos("framebuffer") = {} /\ StepPos("capture") = {}

----------------------------------------------------------------------------
(* C15 *)

\* the physical address the processor resolves va to through the tables CR3
\* names (4-level walk with a 1 GiB page at the second level), None when the
\* walk meets an entry that is not present; addresses in KiB
Translate(va) ==
    LET e4 == kern.pml4[va \div (TABLE_ENTRIES * GIB_KIB)]
        e3 == kern.pdp[(va \div GIB_KIB) % TABLE_ENTRIES]
    IN  IF PAGE_PRESENT \notin e4.flags \/ e4.addr # kern.pdp_addr THEN None
        ELSE IF PAGE_PRESENT \notin e3.flags \/ PAGE_HUGE \notin e3.flags
             THEN None
             ELSE e3.addr + (va % GIB_KIB)

\* addresses probed: around every 1 GiB boundary up to 5 GiB, the first
\* address of the second top-level slot, and others above 4 GiB
ProbeAddrs ==
    UNION {{g * GIB_KIB, g * GIB_KIB + PAGE_KIB, (g + 1) * GIB_KIB - 1} :
              g \in 0..4}
        \cup {TABLE_ENTRIES * GIB_KIB, TABLE_ENTRIES * GIB_KIB + GIB_KIB,
              511 * GIB_KIB}

\* C15 (identity map shape): after init_paging, second-level entries 0..3 are
\* (i << 30) with present, writable and huge set, second-level entries 4..511
\* are zero, top-level entry 0 points at the second-level table with present
\* and writable set, top-level entries 1..511 are zero, and CR3 names the
\* top-level table: every address below 4 GiB maps to itself and no address
\* from 4 GiB on is mapped.
C15_IdentityMap ==
    kern.paging =>
        /\ \A i \in 0..3 :
               kern.pdp[i] =
                   Entry(i * GIB_KIB, {PAGE_PRESENT, PAGE_WRITABLE, PAGE_HUGE})
        /\ \A i \in 4..511 : kern.pdp[i] = ZeroEntry
        /\ kern.pml4[0] = Entry(kern.pdp_addr, {PAGE_PRESENT, PAGE_WRITABLE})
        /\ \A i \in 1..511 : kern.pml4[i] = ZeroEntry
        /\ kern.cr3 = kern.pml4_addr
        /\ \A va \in ProbeAddrs :
               Translate(va) = IF va < FOUR_GIB_KIB THEN va ELSE None

\* init_paging has run and the boot sequence went on to its final loop
C15_Witness ==
    /\ kern.paging /\ pc = "spin"
    /\ kern.cr3 = kern.pml4_addr
    /\ PAGE_HUGE \in kern.pdp[3].flags

----------------------------------------------------------------------------
(* C16 *)

\* the boot sequence has passed the init_heap statement
PastHeap == pc \in {"heap_test", "fa_new", "alloc1", "alloc2", "spin"}

\* C16 (heap lifecycle): init_heap is never invoked twice, and exactly once
\* in every run that comes to that statement (a run halted by an earlier
\* panic never invokes it); it is invoked only after init_paging has loaded
\* the identity map and before the first dynamic allocation request; and the
\* region it hands over, [HEAP_START, HEAP_START + HEAP_SIZE), lies inside
\* [0, 4 GiB), which the loaded tables map to itself.
C16_HeapLifecycle ==
    /\ kern.heap_inits <= 1
    /\ kern.heap_inits = Cardinality(StepPos("heap"))
    /\ PastHeap => kern.heap_inits = 1
    /\ Precedes("paging", "heap")
    /\ Precedes("heap", "heap_test")
    /\ kern.heap_inits = 0 => kern.heap = NoHeap /\ StepPos("heap_test") = {}
    /\ kern.heap_inits >= 1 =>
           /\ kern.paging /\ kern.cr3 = kern.pml4_addr
           /\ kern.heap = [start |-> HEAP_START_KIB, size |-> HEAP_SIZE_KIB]
           /\ 0 <= kern.heap.start
           /\ kern.heap.start + kern.heap.size <= FOUR_GIB_KIB
           /\ \A a \in {kern.heap.start, kern.heap.start + kern.heap.size - 1} :
                  Translate(a) = a

\* the heap initialised and the allocation request made, the run at its end
C16_Witness ==
    /\ pc = "spin"
    /\ kern.heap_inits = 1
    /\ StepPos("heap_test") # {}

----------------------------------------------------------------------------
(* C17 *)

\* the frame at addr shares a byte with the heap region
OverlapsHeap(addr) ==
    /\ addr < HEAP_START_KIB + HEAP_SIZE_KIB
    /\ HEAP_START_KIB < addr + PAGE_KIB

\* C17 (heap region ownership): no frame returned by allocate_frame overlaps
\* the heap region [HEAP_START, HEAP_START + HEAP_SIZE), whatever the
\* firmware's memory map.
C17_HeapOwnership ==
    LET S == Successes
    IN  \A k \in 1..Len(S) : ~OverlapsHeap(S[k])

----------------------------------------------------------------------------
(* C18 *)

\* C18 (frame range): every frame returned by allocate_frame has an address
\* that is a multiple of 4096 and lies entirely below 4 GiB, for any
\* snapshot, one with Usable regions that straddle 4 GiB or lie wholly above
\* it included.
C18_FrameRange ==
    LET S == Successes
    IN  \A k \in 1..Len(S) :
            /\ S[k] % PAGE_KIB = 0
            /\ 0 <= S[k]
            /\ S[k] + PAGE_KIB <= FOUR_GIB_KIB

\* the snapshot with a Usable region across 4 GiB and one above it, exhausted
\* after the two frames of its low region
C18_Witness ==
    /\ Built /\ Exhausted
    /\ snap.regions = AboveCapRegions
    /\ Len(Successes) = 2

----------------------------------------------------------------------------
(* C20 *)

\* C20 (snapshot stability): once the firmware has accepted the exit, the
\* holder is the snapshot written by the map capture of that same, final
\* iteration (the call just before the accepted attempt, whose key the
\* attempt offered); its bytes, byte length, stride and key stay as they were
\* at the accepted exit through every later step, the allocator's
\* construction and every allocate_frame call included; and the allocator is
\* built from exactly that snapshot.
C20_SnapshotStability ==
    fw.exited =>
        /\ holder = snap.at_exit
        /\ snap.at_exit = snap.written
        /\ SubSeq(holder.memory_map_buffer, 1, holder.memory_map_size \div WORD) =
               EncodeMap(snap.regions, snap.layout)
                   \o Fill(snap.layout.tail \div WORD, snap.layout.pad)
        /\ holder.memory_map_size =
               Len(snap.regions) * snap.layout.stride + snap.layout.tail
        /\ holder.descriptor_size = snap.layout.stride
        /\ Len(calls) >= 2
        /\ Accepted(Len(calls))
        /\ calls[Len(calls)].arg = holder.map_key
        /\ calls[Len(calls) - 1].op = "get_memory_map"
        /\ calls[Len(calls) - 1].status = "Success"
        /\ calls[Len(calls) - 1].key = holder.map_key
        /\ (Constructed /\ returned = <<>>) => fa = New(snap.at_exit)

\* the exit accepted on a later iteration than the first, the allocator built
\* and both frames requested
C20_Witness ==
    /\ fw.exited /\ fw.rejects0 >= 1
    /\ CountOp("get_memory_map") >= 2
    /\ pc = "spin" /\ Built /\ Len(returned) = 2

----------------------------------------------------------------------------
(* C21 *)

\* the positions of the get_memory_map calls
MapQueries == {i \in 1..Len(calls) : calls[i].op = "get_memory_map"}

\* C21 (capacity re-supply): on every call of call_get_memory_map, retries
\* included, the size handed to the firmware is the full capacity of the
\* holder's buffer, 32768 bytes, whatever byte length the firmware wrote back
\* on the call before.
C21_CapacityResupply ==
    \A i \in MapQueries : calls[i].arg = 32768 /\ calls[i].arg = MEMORY_MAP_BUFFER_SIZE

\* a query made after an earlier one had written back a smaller byte length
C21_Witness ==
    /\ Cardinality(MapQueries) >= 2
    /\ calls[Min(MapQueries)].status = "Success"
    /\ holder.memory_map_size < MEMORY_MAP_BUFFER_SIZE
    /\ pc = "exit_bs"

----------------------------------------------------------------------------
(* C22 *)

\* the positions in the log of the probe's memory accesses
ProbeAccesses == {i \in 1..Len(kern.log) : kern.log[i].op \in {"write", "read"}}

LogPos(op) == {i \in 1..Len(kern.log) : kern.log[i].op = op}

\* C22 (probe bracketing): every access of the paging smoke test's probe (the
\* write, then the read, of one address) happens after init_paging has loaded
\* the identity map, targets an address below 4 GiB that the map resolves to
\* itself, and lies between an interrupt disable and the enable that follows
\* it, with no enable between the disable and the access.
C22_ProbeBracketing ==
    /\ \A i \in ProbeAccesses :
           /\ \E j \in LogPos("load_cr3") : j < i
           /\ kern.paging
           /\ 0 <= kern.log[i].addr /\ kern.log[i].addr < FOUR_GIB_KIB
           /\ Translate(kern.log[i].addr) = kern.log[i].addr
           /\ \E d \in LogPos("disable") :
                  /\ d < i
                  /\ \A e \in LogPos("enable") : ~(d < e /\ e < i)
           /\ \E e \in LogPos("enable") : i < e
    /\ \A i \in LogPos("write") :
           /\ i + 1 \in LogPos("read")
           /\ kern.log[i + 1].addr = kern.log[i].addr
    /\ \A i \in LogPos("read") : i - 1 \in LogPos("write")
    /\ StepPos("smoke") # {} <=> ProbeAccesses # {}

\* the probe has run and the boot sequence went on
C22_Witness ==
    /\ Cardinality(ProbeAccesses) = 2
    /\ LogPos("enable") # {}
    /\ pc = "spin"

----------------------------------------------------------------------------
(* C23 *)

BootBuilt == kern.bfa.kind = "bootinfo"

\* C23 (BootInfoFrameAllocator honours the stride): it treats the snapshot as
\* floor(memory_map_size / descriptor_size) descriptors with descriptor i at
\* byte offset i * descriptor_size, so it reads the regions that
\* BitmapFrameAllocator reads, whatever the stride, and no descriptor it reads
\* ends past the captured byte length.
C23_BootInfoStride ==
    BootBuilt =>
        /\ Len(kern.bfa.memory_map) = NumDesc(holder)
        /\ \A i \in 1..NumDesc(holder) :
               BootInfoOffsets(holder)[i] = (i - 1) * holder.descriptor_size
        /\ kern.bfa.memory_map = WalkDesc(holder)
        /\ \A i \in 1..NumDesc(holder) :
               BootInfoOffsets(holder)[i] + DESC_SIZE <= holder.memory_map_size

----------------------------------------------------------------------------
(* C24 *)

\* the highest bitmap index the next allocate_frame call reads: the index it
\* stops at, or frame_count - 1 when the scan finds no zero bit
LastScanned(a) == IF ScanHit(a) = None THEN a.frame_count - 1 ELSE ScanHit(a)

\* C24 (bitmap bounds): the bitmap's length is 8 * ceil(frame_count / 8) bits
\* and never more than the 8 * 102400 bits of storage; every index new clears
\* and every index an allocate_frame call reads or sets is below that length,
\* for any snapshot.
C24_BitmapBounds ==
    Built =>
        /\ fa.bitmap.len = 8 * ((fa.frame_count + 7) \div 8)
        /\ fa.bitmap.len <= 8 * BITMAP_STORAGE_SIZE_BYTES
        /\ kern.storage_written * 8 = fa.bitmap.len
        /\ \A i \in Cleared(holder, fa.frame_count) : 0 <= i /\ i < fa.bitmap.len
        /\ \A i \in fa.bitmap.zeros : 0 <= i /\ i < fa.bitmap.len
        /\ LastScanned(fa) < fa.bitmap.len
        /\ ScanHit(fa) # None => 0 <= ScanHit(fa) /\ ScanHit(fa) < fa.bitmap.len
        /\ \A k \in 1..Len(returned) :
               returned[k] # None => returned[k] \div PAGE_KIB < fa.bitmap.len

\* a bitmap that fills the storage to its last bit, that bit's frame handed out
C24_Witness ==
    /\ Built
    /\ fa.bitmap.len = 8 * BITMAP_STORAGE_SIZE_BYTES
    /\ Len(returned) >= 1
    /\ returned[Len(returned)] = (fa.bitmap.len - 1) * PAGE_KIB

----------------------------------------------------------------------------
(* C25 *)

\* C25 (free-count accounting): count_free_frames() is the number of zero
\* bits below frame_count, which is the number of allocate_frame calls that
\* will still succeed: it is zero exactly when the next call returns None,
\* and together with the frames handed out so far it makes up the frames the
\* snapshot made allocatable.  Each successful allocate_frame changes exactly
\* one bit, that of the returned frame, from 0 to 1, and so lowers the count
\* by exactly 1.  count_free_frames returns that count and changes nothing.
C25_FreeCount ==
    /\ [](Built =>
            /\ count_free_frames(fa) = Cardinality(FreeBits(fa))
            /\ count_free_frames(fa) + Len(Successes) = Cardinality(Allocatable)
            /\ (count_free_frames(fa) = 0) <=> (Allocate(fa)[2] = None)
            /\ Exhausted => count_free_frames(fa) = 0
            /\ kern.counted # None => kern.counted = count_free_frames(fa))
    /\ [][(returned' # returned /\ returned'[Len(returned')] # None) =>
             LET idx == returned'[Len(returned')] \div PAGE_KIB
             IN  /\ idx \in fa.bitmap.zeros
                 /\ fa'.bitmap.zeros = fa.bitmap.zeros \ {idx}
                 /\ fa'.bitmap.len = fa.bitmap.len
                 /\ fa'.frame_count = fa.frame_count
                 /\ count_free_frames(fa') = count_free_frames(fa) - 1]_vars
    /\ [][(kern'.counted # kern.counted /\ kern'.counted # None) =>
             /\ fa' = fa /\ returned' = returned /\ holder' = holder
             /\ kern'.counted = Cardinality(FreeBits(fa))]_vars

\* frames counted after some were handed out and while some are still free
C25_Witness ==
    /\ Built /\ Len(Successes) >= 1
    /\ kern.counted # None /\ kern.counted >= 1
    /\ kern.counted < Cardinality(Allocatable)

----------------------------------------------------------------------------
(* C26 *)

\* C26 (zero stride is rejected): new, given a snapshot whose descriptor_size
\* is 0, panics at its descriptor_size check: not at the division that
\* computes the descriptor count, with no descriptor read and no byte of the
\* bitmap storage written, whatever the snapshot's bytes and byte length.
C26_ZeroStride ==
    (Constructed /\ holder.descriptor_size = 0) =>
        /\ fa = [kind |-> "panic", why |-> "descriptor_size"]
        /\ DescriptorsRead(holder) = 0
        /\ kern.storage_written = 0
        /\ returned = <<>>

\* new has panicked on a zero-stride snapshot that holds descriptors
C26_Witness ==
    /\ pc = "t_panic"
    /\ holder.descriptor_size = 0
    /\ holder.memory_map_size >= 2 * DESC_SIZE
    /\ fa.kind = "panic"

====
